---- MODULE Spec2Model ----
(***************************************************************************)
(* Model of markdown2pdf_resume_builder.ResumeBuilder                      *)
(* (src/src/markdown2pdf_resume_builder/resume_builder.py).                *)
(*                                                                         *)
(* A Python str is a sequence of one-character strings, so that strip,     *)
(* split, startswith, endswith, lower and the substring test are computed  *)
(* as the code computes them.  A block (the dicts of                       *)
(* _parse_markdown_content) is a record [type, title, content].            *)
(***************************************************************************)
EXTENDS Naturals, Integers, Sequences, FiniteSets, TLC

VARIABLES
    pc,             \* position in the pipeline
    content,        \* markdown_content, the text handed to _parse_markdown_content
    sections,       \* the local `sections` of generate_pdf / _build_pdf_content
    secLines,       \* section['content'] walked by the entry loop of _build_pdf_content
    segIdx,         \* index of the next line of secLines (1-based)
    current_entry,  \* current_entry of the entry loop
    entries,        \* the entries handed to _format_entry so far, in order
    secTitle,       \* section['title'] of the section _reorder_sections looks at
    secCategory,    \* the section_map key (or "other") that title was filed under
    hdrLines,       \* section['content'] of the name block walked by _build_pdf_content
    hdrTitle,       \* the local `title` after the loop over the name block
    hdrContacts,    \* the local `contact_lines` after that loop
    one_page,       \* self.one_page
    content_length, \* self.content_length
    sizing,         \* what _get_dynamic_sizing returned
    styles,         \* font_size, title_size, name_size, spacing of create_styles
    textA,          \* a text handed to _estimate_content_length
    textB,          \* another one
    density,        \* the estimates for textA, textB and textA + textB
    theme,          \* self.theme.name
    inLabel,        \* the label of the link in the fragment handed to _clean_text
    inUrl,          \* the url of that link
    inText,         \* the fragment handed to _clean_text
    outText,        \* what _clean_text returned
    builders,       \* the ResumeBuilder objects: one_page, content_length, styles
    lastInput,      \* per builder, the file of its last completed conversion
    outFiles,       \* per output path, how many times it was written
    nCalls,         \* generate_pdf calls made so far
    call,           \* the last generate_pdf call and what it did
    header_color,   \* the header_color argument of __init__
    colorOutcome,   \* how __init__ ended for that argument
    sectionsReportlab, \* the block list of resume_builder_reportlab.py
    sectionsUnified,   \* the block list of main_unified.py
    eduContent,     \* the content handed to _format_education_section
    education_entries, \* its local education_entries after the loop
    eduLayout,      \* the branch that rendered them
    secLayout       \* the formatter _build_pdf_content chose for secTitle

docVars == <<content, sections>>
segVars == <<secLines, segIdx, current_entry, entries>>
catVars == <<secTitle, secCategory>>
hdrVars == <<hdrLines, hdrTitle, hdrContacts>>
sizeVars == <<one_page, content_length, sizing, styles>>
densVars == <<textA, textB, density>>
inlVars == <<theme, inLabel, inUrl, inText, outText>>
genVars == <<builders, lastInput, outFiles, nCalls, call>>
colorVars == <<header_color, colorOutcome>>
variantVars == <<sectionsReportlab, sectionsUnified>>
eduVars == <<eduContent, education_entries, eduLayout>>
layVars == <<secLayout>>

\* the variables of generate_pdf, of the constructor's colour option, of the
\* parser variants, of the education formatter and of the layout choice
lateVars == <<genVars, colorVars, variantVars, eduVars, layVars>>

\* the variables of the components added after the parser, the reordering
\* and the entry loop
extVars == <<catVars, hdrVars, sizeVars, densVars, inlVars, lateVars>>

vars == <<pc, docVars, segVars, extVars>>

(***************************************************************************)
(* Python str primitives                                                   *)
(***************************************************************************)

\* the characters str.strip() removes (ASCII whitespace)
Whitespace == {" ", "\t", "\n", "\r", "\f"}

NL == "\n"

RECURSIVE LStrip(_)
LStrip(s) ==
    IF s # <<>> /\ Head(s) \in Whitespace THEN LStrip(Tail(s)) ELSE s

RECURSIVE RStrip(_)
RStrip(s) ==
    IF s # <<>> /\ s[Len(s)] \in Whitespace
    THEN RStrip(SubSeq(s, 1, Len(s) - 1))
    ELSE s

\* s.strip()
Strip(s) == RStrip(LStrip(s))

RECURSIVE LStripChar(_, _)
LStripChar(s, c) ==
    IF s # <<>> /\ Head(s) = c THEN LStripChar(Tail(s), c) ELSE s

RECURSIVE RStripChar(_, _)
RStripChar(s, c) ==
    IF s # <<>> /\ s[Len(s)] = c
    THEN RStripChar(SubSeq(s, 1, Len(s) - 1), c)
    ELSE s

\* s.strip(c) for a one-character argument
StripChar(s, c) == RStripChar(LStripChar(s, c), c)

\* s.startswith(p)
StartsWith(s, p) == Len(s) >= Len(p) /\ \A j \in 1..Len(p) : s[j] = p[j]

\* s.endswith(p)
EndsWith(s, p) ==
    Len(s) >= Len(p) /\ SubSeq(s, Len(s) - Len(p) + 1, Len(s)) = p

\* p in s
Contains(s, p) ==
    \E i \in 0..(Len(s) - Len(p)) : \A j \in 1..Len(p) : s[i + j] = p[j]

\* s[n:]
Drop(s, n) == SubSeq(s, n + 1, Len(s))

UpperLetters ==
    <<"A","B","C","D","E","F","G","H","I","J","K","L","M",
      "N","O","P","Q","R","S","T","U","V","W","X","Y","Z">>

LowerLetters ==
    <<"a","b","c","d","e","f","g","h","i","j","k","l","m",
      "n","o","p","q","r","s","t","u","v","w","x","y","z">>

UpperToLower ==
    [c \in {UpperLetters[i] : i \in 1..Len(UpperLetters)} |->
        LowerLetters[CHOOSE i \in 1..Len(UpperLetters) : UpperLetters[i] = c]]

LowerChar(c) == IF c \in DOMAIN UpperToLower THEN UpperToLower[c] ELSE c

\* s.lower()
Lower(s) == [i \in 1..Len(s) |-> LowerChar(s[i])]

\* s.split('\n'): always at least one piece
RECURSIVE SplitFrom(_, _, _)
SplitFrom(s, i, piece) ==
    IF i > Len(s) THEN <<piece>>
    ELSE IF s[i] = NL THEN <<piece>> \o SplitFrom(s, i + 1, <<>>)
    ELSE SplitFrom(s, i + 1, Append(piece, s[i]))

SplitLines(s) == SplitFrom(s, 1, <<>>)

\* '\n'.join(ls): how a text file holds its lines
RECURSIVE JoinLines(_)
JoinLines(ls) ==
    IF ls = <<>> THEN <<>>
    ELSE IF Len(ls) = 1 THEN ls[1]
    ELSE ls[1] \o <<NL>> \o JoinLines(Tail(ls))

(***************************************************************************)
(* _parse_markdown_content                                                 *)
(***************************************************************************)

HRule == <<"-","-","-">>
H1Mark == <<"#"," ">>
H2Mark == <<"#","#"," ">>

\* current_section = None
NoSection == [type |-> "none", title |-> <<>>, content |-> <<>>]

\* the two `continue` tests of the loop: a blank line, a separator
SkippedLine(line) ==
    \/ line = <<>>
    \/ StartsWith(line, HRule) \/ line = HRule

\* The lines that get past the two `continue` tests, each already stripped,
\* in the order the loop visits them.
Tokenize(text) ==
    LET raw == SplitLines(Strip(text))
        stripped == [i \in 1..Len(raw) |-> Strip(raw[i])]
    IN  SelectSeq(stripped, LAMBDA l : ~SkippedLine(l))

\* mutant: the block is emitted without the `if current_section` test
CloseBlockAlways(st) ==
    Append(st.sections,
           [st.current_section EXCEPT !.content = st.current_content])

\* `if current_section: current_section['content'] = current_content;
\*  sections.append(current_section)`
CloseBlock(st) ==
    IF st.current_section # NoSection
    THEN Append(st.sections,
                [st.current_section EXCEPT !.content = st.current_content])
    ELSE st.sections

\* mutant: the title is the rest of the header line as it stands
ParseLineRawTitle(st, line) ==
    IF StartsWith(line, H1Mark)
    THEN [sections |-> CloseBlock(st),
          current_section |->
              [type |-> "name", title |-> Drop(line, 2), content |-> <<>>],
          current_content |-> <<>>]
    ELSE IF StartsWith(line, H2Mark)
    THEN [sections |-> CloseBlock(st),
          current_section |->
              [type |-> "section", title |-> Drop(line, 3), content |-> <<>>],
          current_content |-> <<>>]
    ELSE [st EXCEPT !.current_content = Append(@, line)]

\* mutant: a new header does not reset current_content
ParseLineKeepContent(st, line) ==
    IF StartsWith(line, H1Mark)
    THEN [sections |-> CloseBlock(st),
          current_section |->
              [type |-> "name", title |-> Strip(Drop(line, 2)), content |-> <<>>],
          current_content |-> st.current_content]
    ELSE IF StartsWith(line, H2Mark)
    THEN [sections |-> CloseBlock(st),
          current_section |->
              [type |-> "section", title |-> Strip(Drop(line, 3)), content |-> <<>>],
          current_content |-> st.current_content]
    ELSE [st EXCEPT !.current_content = Append(@, line)]

\* the if / elif / else of the loop body, for a line that was not skipped
ParseLine(st, line) ==
    IF StartsWith(line, H1Mark)
    THEN [sections |-> CloseBlock(st),
          current_section |->
              [type |-> "name", title |-> Strip(Drop(line, 2)), content |-> <<>>],
          current_content |-> <<>>]
    ELSE IF StartsWith(line, H2Mark)
    THEN [sections |-> CloseBlock(st),
          current_section |->
              [type |-> "section", title |-> Strip(Drop(line, 3)), content |-> <<>>],
          current_content |-> <<>>]
    ELSE [st EXCEPT !.current_content = Append(@, line)]

RECURSIVE ParseLoop(_, _, _)
ParseLoop(st, lines, i) ==
    IF i > Len(lines) THEN st
    ELSE ParseLoop(ParseLine(st, lines[i]), lines, i + 1)

ParseMarkdownContent(text) ==
    CloseBlock(ParseLoop([sections |-> <<>>,
                          current_section |-> NoSection,
                          current_content |-> <<>>],
                         Tokenize(text), 1))

(***************************************************************************)
(* _reorder_sections                                                       *)
(***************************************************************************)

KwEducation == <<"e","d","u","c","a","t","i","o","n">>
KwExperience == <<"e","x","p","e","r","i","e","n","c","e">>
KwWork == <<"w","o","r","k">>
KwSkill == <<"s","k","i","l","l">>
KwProject == <<"p","r","o","j","e","c","t">>
KwCourse == <<"c","o","u","r","s","e">>

\* mutant: the experience test is made before the education test
CategoryExperienceFirst(title) ==
    LET title_lower == Lower(title)
    IN  IF Contains(title_lower, KwExperience) \/ Contains(title_lower, KwWork)
        THEN "experience"
        ELSE IF Contains(title_lower, KwEducation) THEN "education"
        ELSE IF Contains(title_lower, KwSkill) THEN "skills"
        ELSE IF Contains(title_lower, KwProject) THEN "projects"
        ELSE IF Contains(title_lower, KwCourse) THEN "courses"
        ELSE "other"

\* the key of section_map a title goes to, "other" for other_sections
Category(title) ==
    LET title_lower == Lower(title)
    IN  IF Contains(title_lower, KwEducation) THEN "education"
        ELSE IF Contains(title_lower, KwExperience) \/ Contains(title_lower, KwWork)
             THEN "experience"
        ELSE IF Contains(title_lower, KwSkill) THEN "skills"
        ELSE IF Contains(title_lower, KwProject) THEN "projects"
        ELSE IF Contains(title_lower, KwCourse) THEN "courses"
        ELSE "other"

\* dict assignment section_map[k] = v
DictSet(m, k, v) == [x \in DOMAIN m \cup {k} |-> IF x = k THEN v ELSE m[x]]

EmptyDict == [x \in {} |-> NoSection]

\* mutant: the first section of a category keeps its slot
SortBlockFirstWins(acc, section) ==
    IF section.type = "name"
    THEN [acc EXCEPT !.name_section = section]
    ELSE IF section.type = "section"
    THEN IF Category(section.title) = "other"
         THEN [acc EXCEPT !.other_sections = Append(@, section)]
         ELSE IF Category(section.title) \in DOMAIN acc.section_map
              THEN acc
              ELSE [acc EXCEPT !.section_map =
                        DictSet(@, Category(section.title), section)]
    ELSE acc

\* mutant: other sections are collected in front
SortBlockOthersInFront(acc, section) ==
    IF section.type = "name"
    THEN [acc EXCEPT !.name_section = section]
    ELSE IF section.type = "section"
    THEN IF Category(section.title) = "other"
         THEN [acc EXCEPT !.other_sections = <<section>> \o @]
         ELSE [acc EXCEPT !.section_map =
                   DictSet(@, Category(section.title), section)]
    ELSE acc

\* one iteration of `for section in sections`
SortBlock(acc, section) ==
    IF section.type = "name"
    THEN [acc EXCEPT !.name_section = section]
    ELSE IF section.type = "section"
    THEN IF Category(section.title) = "other"
         THEN [acc EXCEPT !.other_sections = Append(@, section)]
         ELSE [acc EXCEPT !.section_map =
                   DictSet(@, Category(section.title), section)]
    ELSE acc

RECURSIVE SortLoop(_, _, _)
SortLoop(acc, blocks, i) ==
    IF i > Len(blocks) THEN acc
    ELSE SortLoop(SortBlock(acc, blocks[i]), blocks, i + 1)

\* mutant: the order of another builder variant, education first
SectionOrderEducationFirst ==
    <<"education", "experience", "projects", "skills", "courses">>

\* the list of `for section_key in [...]`
SectionOrder == <<"experience", "education", "projects", "skills", "courses">>

RECURSIVE OrderedLoop(_, _)
OrderedLoop(section_map, i) ==
    IF i > Len(SectionOrder) THEN <<>>
    ELSE (IF SectionOrder[i] \in DOMAIN section_map
          THEN <<section_map[SectionOrder[i]]>>
          ELSE <<>>) \o OrderedLoop(section_map, i + 1)

\* mutant: every name block is kept where it stood
ReorderKeepNames(blocks) ==
    LET acc == SortLoop([name_section |-> NoSection,
                         section_map |-> EmptyDict,
                         other_sections |-> <<>>], blocks, 1)
    IN  SelectSeq(blocks, LAMBDA b : b.type = "name")
        \o OrderedLoop(acc.section_map, 1)
        \o acc.other_sections

ReorderSections(blocks) ==
    LET acc == SortLoop([name_section |-> NoSection,
                         section_map |-> EmptyDict,
                         other_sections |-> <<>>], blocks, 1)
    IN  (IF acc.name_section # NoSection THEN <<acc.name_section>> ELSE <<>>)
        \o OrderedLoop(acc.section_map, 1)
        \o acc.other_sections

(***************************************************************************)
(* Inputs                                                                  *)
(***************************************************************************)

\* number of lines of an input text of the document pipeline
MaxLines == 3
\* number of lines of an input text of the tokenizer runs
MaxParseLines == 3
\* number of content lines of a section handed to the entry loop
MaxSegLines == 3

SeqsUpTo(S, n) == UNION {[1..k -> S] : k \in 0..n}

\* raw lines for the document pipeline: headers of every category
DocLines ==
    { <<"#"," ","A">>,
      <<"#"," ","B">>,
      <<"#","#"," ","S","K","I","L","L","S">>,
      <<"#","#"," ","E","X","P","E","R","I","E","N","C","E">>,
      <<"#","#"," ","E","D","U","C","A","T","I","O","N">>,
      <<"#","#"," ","W","o","r","k">>,
      <<"#","#"," ","P","r","o","j","e","c","t","s">>,
      <<"#","#"," ","C","o","u","r","s","e","s">>,
      <<"#","#"," ","A","w","a","r","d","s">>,
      <<"#","#"," ","H","o","b","b","y">>,
      <<"c">> }

\* raw lines for the tokenizer: blank, padded, separators, near-headers
ParseLines ==
    { <<"#"," ","A">>,
      <<" ","#"," "," ","B"," ">>,
      <<"#","#"," ","S">>,
      <<>>,
      <<" ">>,
      <<"-","-","-">>,
      <<"-","-","-","-">>,
      <<"-","-","-","x">>,
      <<"c">>,
      <<" ","d"," ","e"," ">>,
      <<"#","x">> }

DocTexts == {JoinLines(ls) : ls \in SeqsUpTo(DocLines, MaxLines)}

ParseTexts == {JoinLines(ls) : ls \in SeqsUpTo(ParseLines, MaxParseLines)}

(***************************************************************************)
(* The document pipeline: generate_pdf parses, _build_pdf_content reorders *)
(***************************************************************************)

SegIdle ==
    /\ secLines = <<>>
    /\ segIdx = 1
    /\ current_entry = <<>>
    /\ entries = <<>>

DocIdle ==
    /\ content = <<>>
    /\ sections = <<>>

CatIdle ==
    /\ secTitle = <<>>
    /\ secCategory = "none"

HdrIdle ==
    /\ hdrLines = <<>>
    /\ hdrTitle = <<>>
    /\ hdrContacts = <<>>

NoSizing == [base_size |-> 0, name_size |-> 0, section_size |-> 0, small_size |-> 0]

NoStyles == [font_size |-> 0, title_size |-> 0, name_size |-> 0, spacing |-> 0]

SizeIdle ==
    /\ one_page = FALSE
    /\ content_length = 0
    /\ sizing = NoSizing
    /\ styles = NoStyles

NoDensity == [a |-> 0, b |-> 0, ab |-> 0]

DensIdle ==
    /\ textA = <<>>
    /\ textB = <<>>
    /\ density = NoDensity

InlIdle ==
    /\ theme = "light"
    /\ inLabel = <<>>
    /\ inUrl = <<>>
    /\ inText = <<>>
    /\ outText = <<>>

GenIdle ==
    /\ builders = <<>>
    /\ lastInput = <<>>
    /\ outFiles = <<>>
    /\ nCalls = 0
    /\ call = <<>>

ColorIdle ==
    /\ header_color = <<>>
    /\ colorOutcome = "none"

VariantIdle ==
    /\ sectionsReportlab = <<>>
    /\ sectionsUnified = <<>>

EduIdle ==
    /\ eduContent = <<>>
    /\ education_entries = <<>>
    /\ eduLayout = "none"

LayIdle == secLayout = "none"

LateIdle == GenIdle /\ ColorIdle /\ VariantIdle /\ EduIdle /\ LayIdle

ExtIdle == CatIdle /\ HdrIdle /\ SizeIdle /\ DensIdle /\ InlIdle /\ LateIdle

Init ==
    /\ pc = "start"
    /\ content \in DocTexts
    /\ sections = <<>>
    /\ SegIdle
    /\ ExtIdle

InitParse ==
    /\ pc = "start"
    /\ content \in ParseTexts
    /\ sections = <<>>
    /\ SegIdle
    /\ ExtIdle

\* sections = self._parse_markdown_content(markdown_content)
Parse ==
    /\ pc = "start"
    /\ sections' = ParseMarkdownContent(content)
    /\ pc' = "parsed"
    /\ UNCHANGED <<content, secLines, segIdx, current_entry, entries>>
    /\ UNCHANGED extVars

\* sections = self._reorder_sections(sections)
Reorder ==
    /\ pc = "parsed"
    /\ sections' = ReorderSections(sections)
    /\ pc' = "reordered"
    /\ UNCHANGED <<content, secLines, segIdx, current_entry, entries>>
    /\ UNCHANGED extVars

Next == Parse \/ Reorder

NextParse == Parse

Spec == Init /\ [][Next]_vars

SpecParse == InitParse /\ [][NextParse]_vars

(***************************************************************************)
(* The entry loop of _build_pdf_content (the `else` layout of a section)   *)
(***************************************************************************)

Star == "*"
Bold == <<"*","*">>
Bold3 == <<"*","*","*">>
Pipe == <<"|">>
Dash == <<"-"," ">>
Hash == <<"#">>

\* mutant: the date/location test is made before the company test
LineKindDateFirst(line) ==
    IF StartsWith(line, <<Star>>) /\ Contains(line, Pipe) /\ EndsWith(line, <<Star>>)
    THEN "date_location"
    ELSE IF StartsWith(line, Bold) /\ ~StartsWith(line, Bold3) /\ EndsWith(line, Bold)
    THEN "company"
    ELSE IF StartsWith(line, Dash) THEN "bullet"
    ELSE IF line # <<>> /\ ~StartsWith(line, Hash) THEN "content"
    ELSE "skip"

\* which branch of the if / elif chain takes the line
LineKind(line) ==
    IF StartsWith(line, Bold) /\ ~StartsWith(line, Bold3) /\ EndsWith(line, Bold)
    THEN "company"
    ELSE IF StartsWith(line, <<Star>>) /\ Contains(line, Pipe) /\ EndsWith(line, <<Star>>)
    THEN "date_location"
    ELSE IF StartsWith(line, Dash) THEN "bullet"
    ELSE IF line # <<>> /\ ~StartsWith(line, Hash) THEN "content"
    ELSE "skip"

\* the tuple the branch appends to current_entry
Fragment(line) ==
    CASE LineKind(line) = "company" ->
            [kind |-> "company", text |-> StripChar(line, Star)]
      [] LineKind(line) = "date_location" ->
            [kind |-> "date_location", text |-> Strip(StripChar(line, Star))]
      [] LineKind(line) = "bullet" ->
            [kind |-> "bullet", text |-> Drop(line, 2)]
      [] OTHER ->
            [kind |-> "content", text |-> line]

\* content lines a parsed section can hold: stripped, not blank, no header,
\* no separator
SegLines ==
    { <<"*","*","a","*","*">>,
      <<"*","*","a","|","b","*","*">>,
      <<"*","a","|","b","*">>,
      <<"*"," ","a","|","b"," ","*">>,
      <<"-"," ","a">>,
      <<"a">>,
      <<"#","a">>,
      <<"*","*","a","*","*","*">>,
      <<"*","*","*","a","|","b","*","*","*">> }

InitSeg ==
    /\ pc = "seg"
    /\ content = <<>>
    /\ sections = <<>>
    /\ secLines \in SeqsUpTo(SegLines, MaxSegLines)
    /\ segIdx = 1
    /\ current_entry = <<>>
    /\ entries = <<>>
    /\ ExtIdle

SegAt(kind) ==
    /\ pc = "seg"
    /\ segIdx <= Len(secLines)
    /\ LineKind(secLines[segIdx]) = kind

\* mutant: a company line is appended to the open entry
SegCompanyNoClose ==
    /\ SegAt("company")
    /\ entries' = entries
    /\ current_entry' = Append(current_entry, Fragment(secLines[segIdx]))
    /\ segIdx' = segIdx + 1
    /\ UNCHANGED <<pc, content, sections, secLines>>
    /\ UNCHANGED extVars

\* company line: the open entry, if any, goes to _format_entry first
SegCompany ==
    /\ SegAt("company")
    /\ entries' = IF current_entry # <<>> THEN Append(entries, current_entry)
                  ELSE entries
    /\ current_entry' = <<Fragment(secLines[segIdx])>>
    /\ segIdx' = segIdx + 1
    /\ UNCHANGED <<pc, content, sections, secLines>>
    /\ UNCHANGED extVars

SegDateLocation ==
    /\ SegAt("date_location")
    /\ current_entry' = Append(current_entry, Fragment(secLines[segIdx]))
    /\ segIdx' = segIdx + 1
    /\ UNCHANGED <<pc, content, sections, secLines, entries>>
    /\ UNCHANGED extVars

SegBullet ==
    /\ SegAt("bullet")
    /\ current_entry' = Append(current_entry, Fragment(secLines[segIdx]))
    /\ segIdx' = segIdx + 1
    /\ UNCHANGED <<pc, content, sections, secLines, entries>>
    /\ UNCHANGED extVars

SegContent ==
    /\ SegAt("content")
    /\ current_entry' = Append(current_entry, Fragment(secLines[segIdx]))
    /\ segIdx' = segIdx + 1
    /\ UNCHANGED <<pc, content, sections, secLines, entries>>
    /\ UNCHANGED extVars

\* no branch matches: the line leaves no trace
SegSkip ==
    /\ SegAt("skip")
    /\ segIdx' = segIdx + 1
    /\ UNCHANGED <<pc, content, sections, secLines, current_entry, entries>>
    /\ UNCHANGED extVars

\* mutant: the entry open at the end of the loop is forgotten
SegFlushDropsLast ==
    /\ pc = "seg"
    /\ segIdx > Len(secLines)
    /\ pc' = "seg_done"
    /\ UNCHANGED <<content, sections, secLines, segIdx, current_entry, entries>>
    /\ UNCHANGED extVars

\* after the loop: `if current_entry: story.extend(self._format_entry(...))`
SegFlush ==
    /\ pc = "seg"
    /\ segIdx > Len(secLines)
    /\ entries' = IF current_entry # <<>> THEN Append(entries, current_entry)
                  ELSE entries
    /\ pc' = "seg_done"
    /\ UNCHANGED <<content, sections, secLines, segIdx, current_entry>>
    /\ UNCHANGED extVars

NextSeg ==
    \/ SegCompany
    \/ SegDateLocation
    \/ SegBullet
    \/ SegContent
    \/ SegSkip
    \/ SegFlush

SpecSeg == InitSeg /\ [][NextSeg]_vars

(***************************************************************************)
(* Properties of the section parser                                        *)
(***************************************************************************)

IsHeaderLine(l) == StartsWith(l, H1Mark) \/ StartsWith(l, H2Mark)

HeaderPositions(toks) == {i \in 1..Len(toks) : IsHeaderLine(toks[i])}

\* the position of the k-th header line
KthHeader(toks, k) ==
    CHOOSE i \in HeaderPositions(toks) :
        Cardinality({j \in HeaderPositions(toks) : j <= i}) = k

\* the last line before the next header line, or the last line
BlockEnd(toks, h) ==
    IF \E j \in HeaderPositions(toks) : j > h
    THEN (CHOOSE j \in HeaderPositions(toks) :
              j > h /\ \A m \in HeaderPositions(toks) : m > h => j <= m) - 1
    ELSE Len(toks)

\* C1: the parser returns one block per header line, in input order; '# '
\* gives type name and '## ' type section, the title is the rest of the header
\* line trimmed, and the content of a block is exactly the retained lines
\* between its header line and the next one (or the end of the input).
C1_OneBlockPerHeader ==
    pc = "parsed" =>
        LET toks == Tokenize(content)
        IN  /\ Len(sections) = Cardinality(HeaderPositions(toks))
            /\ \A k \in 1..Len(sections) :
                  LET h == KthHeader(toks, k)
                      isName == StartsWith(toks[h], H1Mark)
                  IN  /\ sections[k].type = IF isName THEN "name" ELSE "section"
                      /\ sections[k].title =
                             Strip(Drop(toks[h], IF isName THEN 2 ELSE 3))
                      /\ sections[k].content =
                             SubSeq(toks, h + 1, BlockEnd(toks, h))

\* a name block with content followed by a section block
C1_Witness ==
    /\ pc = "parsed"
    /\ Len(sections) = 2
    /\ sections[1].type = "name"
    /\ sections[1].content # <<>>
    /\ sections[2].type = "section"

AllHyphens(l) == \A i \in 1..Len(l) : l[i] = "-"

\* the lines the tokenizer contract keeps: trimmed, not blank, not made of
\* three or more hyphens alone
ContractLines(text) ==
    LET raw == SplitLines(text)
        trimmed == [i \in 1..Len(raw) |-> Strip(raw[i])]
    IN  SelectSeq(trimmed, LAMBDA l : l # <<>> /\ ~(Len(l) >= 3 /\ AllHyphens(l)))

\* C2: the lines that reach the section parser are the trimmed input lines in
\* order, less the blank lines and the lines made solely of three or more
\* hyphens; a line of three hyphens followed by other text is retained.
C2_OnlyRulesAndBlanksRemoved ==
    pc = "parsed" => Tokenize(content) = ContractLines(content)

NamePositions(bs) == {i \in 1..Len(bs) : bs[i].type = "name"}

OneHeaderFirst(bs) ==
    /\ Cardinality(NamePositions(bs)) <= 1
    /\ \A i, j \in 1..Len(bs) :
          bs[i].type = "name" /\ bs[j].type = "section" => i < j

\* C3 as stated: the block list the parser returns holds at most one name
\* block, and it precedes every section block.
C3_ParsedOneHeaderFirst ==
    pc = "parsed" => OneHeaderFirst(sections)

\* C3 as amended: the block list after _reorder_sections holds at most one
\* name block, and it precedes every section block.
C3_ReorderedOneHeaderFirst ==
    pc = "reordered" => OneHeaderFirst(sections)

\* a text with a '# ' line after a '## ' line and two '# ' lines in all
C3_Witness ==
    /\ pc = "reordered"
    /\ ~OneHeaderFirst(ParseMarkdownContent(content))
    /\ Cardinality(NamePositions(ParseMarkdownContent(content))) = 2
    /\ \E i \in 1..Len(sections) : sections[i].type = "section"
    /\ sections[1].type = "name"

(***************************************************************************)
(* Properties of the entry loop                                            *)
(***************************************************************************)

RECURSIVE Flatten(_)
Flatten(es) == IF es = <<>> THEN <<>> ELSE Head(es) \o Flatten(Tail(es))

\* every fragment built so far, in the order it was built
FragmentsSoFar ==
    Flatten(entries) \o (IF pc = "seg" THEN current_entry ELSE <<>>)

\* s without its first n and last n characters (s[n:-n])
Unwrap(s, n) == SubSeq(s, n + 1, Len(s) - n)

IsOrganizationShape(l) ==
    StartsWith(l, Bold) /\ ~StartsWith(l, Bold3) /\ EndsWith(l, Bold)

IsDateLocationShape(l) ==
    StartsWith(l, <<Star>>) /\ Contains(l, Pipe) /\ EndsWith(l, <<Star>>)

IsBulletShape(l) == StartsWith(l, Dash)

IsContentShape(l) == l # <<>> /\ ~StartsWith(l, Hash)

\* the fragments the rules of C4 give, first matching rule first; the text of
\* an organization and of a date_location is orgText(l) and dateText(l)
RuleFragments(ls, orgText(_), dateText(_)) ==
    LET F[i \in 0..Len(ls)] ==
            IF i = 0 THEN <<>>
            ELSE LET l == ls[i]
                 IN  IF IsOrganizationShape(l)
                     THEN Append(F[i - 1], [kind |-> "company", text |-> orgText(l)])
                     ELSE IF IsDateLocationShape(l)
                     THEN Append(F[i - 1],
                                 [kind |-> "date_location", text |-> dateText(l)])
                     ELSE IF IsBulletShape(l)
                     THEN Append(F[i - 1], [kind |-> "bullet", text |-> Drop(l, 2)])
                     ELSE IF IsContentShape(l)
                     THEN Append(F[i - 1], [kind |-> "content", text |-> l])
                     ELSE F[i - 1]
    IN  F[Len(ls)]

WithoutBoldWrapping(l) == Unwrap(l, 2)
WithoutStarWrappingTrimmed(l) == Strip(Unwrap(l, 1))
WithoutOuterStars(l) == StripChar(l, Star)
WithoutOuterStarsTrimmed(l) == Strip(StripChar(l, Star))

LinesDone == SubSeq(secLines, 1, segIdx - 1)

\* C4 as stated: each line is classified by the first matching rule, the
\* text of an organization being the line less its two leading and two
\* trailing asterisks, that of a date_location the line less its first and
\* last asterisk, trimmed.
C4_FirstRuleUnwrapped ==
    pc \in {"seg", "seg_done"} =>
        FragmentsSoFar =
            RuleFragments(LinesDone, WithoutBoldWrapping, WithoutStarWrappingTrimmed)

\* C4 as amended: each line is classified by the first matching rule, in the
\* order organization, date_location, bullet, content, else skipped; the text
\* of an organization is the line less all its leading and trailing
\* asterisks, that of a date_location the same and then trimmed.
C4_FirstRuleStripped ==
    pc \in {"seg", "seg_done"} =>
        FragmentsSoFar =
            RuleFragments(LinesDone, WithoutOuterStars, WithoutOuterStarsTrimmed)

\* a line of both the organization and the date_location shape was classified,
\* and a line of each other outcome
C4_Witness ==
    /\ pc = "seg_done"
    /\ Len(secLines) = 3
    /\ IsOrganizationShape(secLines[1]) /\ IsDateLocationShape(secLines[1])
    /\ ~IsOrganizationShape(secLines[2]) /\ IsDateLocationShape(secLines[2])
    /\ StartsWith(secLines[3], Hash)
    /\ Len(FragmentsSoFar) = 2
    /\ FragmentsSoFar[1].kind = "company"

CompanyPositions(e) == {i \in 1..Len(e) : e[i].kind = "company"}

KindsDone == [i \in 1..Len(LinesDone) |-> LineKind(LinesDone[i])]

ProducingKinds == SelectSeq(KindsDone, LAMBDA k : k # "skip")

\* C5: every entry handed on is non-empty and holds an organization fragment
\* at its first place or nowhere (so at most one); the same holds of the open
\* entry; and at section end there is one entry per organization line, plus
\* one when the first fragment of the section is no organization, so every
\* organization line started an entry and the open entry was handed on.
C5_EntryBoundaries ==
    pc \in {"seg", "seg_done"} =>
        /\ \A i \in 1..Len(entries) :
              /\ entries[i] # <<>>
              /\ CompanyPositions(entries[i]) \subseteq {1}
        /\ CompanyPositions(current_entry) \subseteq {1}
        /\ pc = "seg_done" =>
              Len(entries) =
                  Len(SelectSeq(ProducingKinds, LAMBDA k : k = "company"))
                  + (IF ProducingKinds # <<>> /\ ProducingKinds[1] # "company"
                     THEN 1 ELSE 0)

\* an organization line closed a non-empty entry that began without one
C5_Witness ==
    /\ pc = "seg_done"
    /\ Len(entries) = 2
    /\ entries[1][1].kind # "company"
    /\ entries[2][1].kind = "company"
    /\ Len(entries[2]) = 2

MatchesAShape(l) ==
    \/ IsOrganizationShape(l)
    \/ IsDateLocationShape(l)
    \/ IsBulletShape(l)
    \/ IsContentShape(l)

\* C6: at section end the fragments of the entries handed on, concatenated,
\* are the fragments of the lines that match one of the four shapes, in line
\* order, and there are as many of them as there are such lines.
C6_NoFragmentLost ==
    pc = "seg_done" =>
        LET matching == SelectSeq(secLines, MatchesAShape)
        IN  /\ Flatten(entries) = [i \in 1..Len(matching) |-> Fragment(matching[i])]
            /\ Len(Flatten(entries)) = Len(matching)

\* two matching lines in two entries, and a line that matches no shape
C6_Witness ==
    /\ pc = "seg_done"
    /\ Len(entries) = 2
    /\ Len(Flatten(entries)) = 2
    /\ Len(secLines) = 3
    /\ \E i \in 1..3 : ~MatchesAShape(secLines[i])

(***************************************************************************)
(* Properties of _reorder_sections                                         *)
(***************************************************************************)

\* what the parser returned for the text of this run
Parsed == ParseMarkdownContent(content)

SectionCategory(b) == IF b.type = "section" THEN Category(b.title) ELSE "none"

OtherSections(bs) == SelectSeq(bs, LAMBDA b : SectionCategory(b) = "other")

\* the presentation order the reordering policy documents
PriorityOrder == <<"experience", "education", "projects", "skills", "courses">>

Rank(cat) == CHOOSE i \in 1..Len(PriorityOrder) : PriorityOrder[i] = cat

Categories == {PriorityOrder[i] : i \in 1..Len(PriorityOrder)}

Titles(bs) == [i \in 1..Len(bs) |-> bs[i].title]

TitleSkills == <<"S","K","I","L","L","S">>
TitleExperience == <<"E","X","P","E","R","I","E","N","C","E">>
TitleEducation == <<"E","D","U","C","A","T","I","O","N">>

C8_EducationBeforeExperience ==
    pc = "reordered" =>
        \A i, j \in 1..Len(sections) :
            /\ SectionCategory(sections[i]) = "education"
            /\ SectionCategory(sections[j]) = "experience"
            => i < j

Last(S) == CHOOSE i \in S : \A j \in S : j <= i

\* C9: of the sections of the input that share a category other than other,
\* the reordered list holds the last one and only that one; the sections of
\* category other are all kept.
C9_LastOfCategoryWins ==
    pc = "reordered" =>
        LET inp == Parsed
            inCat == [i \in 1..Len(inp) |-> SectionCategory(inp[i])]
            outCat == [i \in 1..Len(sections) |-> SectionCategory(sections[i])]
        IN  /\ \A cat \in Categories :
                  LET inPos == {i \in 1..Len(inp) : inCat[i] = cat}
                      outPos == {i \in 1..Len(sections) : outCat[i] = cat}
                  IN  /\ inPos = {} => outPos = {}
                      /\ inPos # {} =>
                            /\ Cardinality(outPos) = 1
                            /\ \A o \in outPos : sections[o] = inp[Last(inPos)]
            /\ Cardinality({i \in 1..Len(sections) : outCat[i] = "other"})
                   = Cardinality({i \in 1..Len(inp) : inCat[i] = "other"})
            /\ \A i \in 1..Len(inp) :
                  inCat[i] = "other" => \E o \in 1..Len(sections) : sections[o] = inp[i]

CategoryPositions(bs, cat) == {i \in 1..Len(bs) : SectionCategory(bs[i]) = cat}

\* two different sections of one category, the earlier one dropped, and a
\* section of category other kept
C9_Witness ==
    /\ pc = "reordered"
    /\ \E cat \in Categories :
          \E i, j \in CategoryPositions(Parsed, cat) :
              /\ i < j
              /\ Parsed[i] # Parsed[j]
              /\ \A o \in 1..Len(sections) : sections[o] # Parsed[i]
    /\ OtherSections(sections) # <<>>

\* C10: reordering the reordered list changes nothing.
C10_ReorderIdempotent ==
    pc = "reordered" => ReorderSections(sections) = sections

\* a text with several Header blocks, of which the last survives, and a section
C10_Witness ==
    /\ pc = "reordered"
    /\ Cardinality(NamePositions(Parsed)) >= 2
    /\ Len(Parsed) > Len(sections)
    /\ Len(sections) >= 2

(***************************************************************************)
(* The category of one section title (_reorder_sections, one iteration)    *)
(***************************************************************************)

\* number of words of a section title
MaxTitleWords == 3

TitleWords ==
    { <<"E","d","u","c","a","t","i","o","n">>,
      <<"E","X","P","E","R","I","E","N","C","E">>,
      <<"W","o","r","k">>,
      <<"S","k","i","l","l","s">>,
      <<"p","r","o","j","e","c","t">>,
      <<"C","o","u","r","s","e","s">>,
      <<"M","i","s","c">> }

RECURSIVE JoinWords(_)
JoinWords(ws) ==
    IF ws = <<>> THEN <<>>
    ELSE IF Len(ws) = 1 THEN ws[1]
    ELSE ws[1] \o <<" ">> \o JoinWords(Tail(ws))

\* the titles a parsed section can have here: one word or more
SectionTitles ==
    {JoinWords(ws) : ws \in UNION {[1..k -> TitleWords] : k \in 1..MaxTitleWords}}

InitCat ==
    /\ pc = "cat"
    /\ DocIdle
    /\ SegIdle
    /\ secTitle \in SectionTitles
    /\ secCategory = "none"
    /\ HdrIdle /\ SizeIdle /\ DensIdle /\ InlIdle /\ LateIdle

\* the if / elif chain on title_lower, for one section
FileSection ==
    /\ pc = "cat"
    /\ secCategory' = Category(secTitle)
    /\ pc' = "filed"
    /\ UNCHANGED <<docVars, segVars, secTitle, hdrVars, sizeVars, densVars, inlVars, lateVars>>

NextCat == FileSection

SpecCat == InitCat /\ [][NextCat]_vars

\* the tests of C11 in their order: the keywords of a test, its category
KeywordTests ==
    << [kws |-> {KwEducation}, cat |-> "education"],
       [kws |-> {KwExperience, KwWork}, cat |-> "experience"],
       [kws |-> {KwSkill}, cat |-> "skills"],
       [kws |-> {KwProject}, cat |-> "projects"],
       [kws |-> {KwCourse}, cat |-> "courses"] >>

PassesTest(title, i) ==
    \E kw \in KeywordTests[i].kws : Contains(Lower(title), kw)

\* C11: the category is that of the earliest keyword test the title passes,
\* whatever its letter case, and other when it passes none; a title with both
\* 'education' and 'experience' is education.
C11_FirstKeywordTestWins ==
    pc = "filed" =>
        LET passed == {i \in 1..Len(KeywordTests) : PassesTest(secTitle, i)}
        IN  /\ passed = {} => secCategory = "other"
            /\ passed # {} =>
                  secCategory =
                      KeywordTests[CHOOSE i \in passed : \A j \in passed : i <= j].cat
            /\ PassesTest(secTitle, 1) /\ PassesTest(secTitle, 2)
                  => secCategory = "education"

\* a title that names experience before education, filed as education
C11_Witness ==
    /\ pc = "filed"
    /\ StartsWith(Lower(secTitle), KwExperience)
    /\ Contains(Lower(secTitle), KwEducation)
    /\ secCategory = "education"

(***************************************************************************)
(* The name block in _build_pdf_content: title and contact lines           *)
(***************************************************************************)

At == <<"@">>
KwLinkedin == <<"l","i","n","k","e","d","i","n">>
KwHttp == <<"h","t","t","p">>
Paren == <<"(">>

\* `line.startswith('**') and line.endswith('**')`
IsBoldWrapped(line) == StartsWith(line, Bold) /\ EndsWith(line, Bold)

\* the test of the elif: '@', 'linkedin', 'http' or '(' in the line
IsContactLine(line) ==
    \/ Contains(line, At)
    \/ Contains(Lower(line), KwLinkedin)
    \/ Contains(Lower(line), KwHttp)
    \/ Contains(line, Paren)

\* line[2:-2]
Slice2(line) == SubSeq(line, 3, Len(line) - 2)

\* one iteration of `for line in section['content']`
HeaderLine(acc, line) ==
    IF IsBoldWrapped(line)
    THEN [acc EXCEPT !.title = Slice2(line)]
    ELSE IF IsContactLine(line)
    THEN [acc EXCEPT !.contact_lines = Append(@, line)]
    ELSE acc

RECURSIVE HeaderLoop(_, _, _)
HeaderLoop(acc, lines, i) ==
    IF i > Len(lines) THEN acc
    ELSE HeaderLoop(HeaderLine(acc, lines[i]), lines, i + 1)

\* title = ""; contact_lines = []; then the loop
HeaderFields(lines) ==
    HeaderLoop([title |-> <<>>, contact_lines |-> <<>>], lines, 1)

\* number of content lines of the name block
MaxHdrLines == 3

\* content lines a parsed name block can hold
HdrLines ==
    { <<"*","*","T","*","*">>,
      <<"*","*","U","*","*">>,
      <<"*","*","a","@","b","*","*">>,
      <<"a","@","b">>,
      <<"(","5",")">>,
      <<"L","i","n","k","e","d","I","n">>,
      <<"H","T","T","P",":","x">>,
      <<"x">> }

InitHdr ==
    /\ pc = "header"
    /\ DocIdle
    /\ SegIdle
    /\ hdrLines \in SeqsUpTo(HdrLines, MaxHdrLines)
    /\ hdrTitle = <<>>
    /\ hdrContacts = <<>>
    /\ CatIdle /\ SizeIdle /\ DensIdle /\ InlIdle /\ LateIdle

\* the `if section['type'] == 'name'` branch up to _create_header_table
ReadHeader ==
    /\ pc = "header"
    /\ hdrTitle' = HeaderFields(hdrLines).title
    /\ hdrContacts' = HeaderFields(hdrLines).contact_lines
    /\ pc' = "header_read"
    /\ UNCHANGED <<docVars, segVars, catVars, hdrLines, sizeVars, densVars, inlVars, lateVars>>

NextHdr == ReadHeader

SpecHdr == InitHdr /\ [][NextHdr]_vars

\* C12: the contact lines are all the lines that match a contact heuristic,
\* bold-wrapped or not, and only a bold-wrapped line that matches none can
\* give the title.
C12_ContactCheckedFirst ==
    pc = "header_read" =>
        /\ hdrContacts = SelectSeq(hdrLines, IsContactLine)
        /\ hdrTitle # <<>> =>
              \E i \in 1..Len(hdrLines) :
                  /\ IsBoldWrapped(hdrLines[i])
                  /\ ~IsContactLine(hdrLines[i])
                  /\ hdrTitle = Slice2(hdrLines[i])

\* C13: the title is the first bold-wrapped line of the name block, and
\* empty when the block has none (stated for blocks whose bold-wrapped lines
\* match no contact heuristic, where C12 does not bear on it).
C13_FirstBoldLineIsTitle ==
    pc = "header_read" =>
        LET bolds == SelectSeq(hdrLines, IsBoldWrapped)
        IN  (\A i \in 1..Len(bolds) : ~IsContactLine(bolds[i])) =>
                /\ bolds = <<>> => hdrTitle = <<>>
                /\ bolds # <<>> => hdrTitle = Slice2(bolds[1])

(***************************************************************************)
(* Lines before the first header line                                      *)
(***************************************************************************)

\* the retained lines that stand before the first header line
LeadingLines(toks) ==
    SubSeq(toks, 1,
           IF HeaderPositions(toks) = {} THEN Len(toks)
           ELSE (CHOOSE h \in HeaderPositions(toks) :
                     \A g \in HeaderPositions(toks) : h <= g) - 1)

BlockContents(bs) == Flatten([i \in 1..Len(bs) |-> bs[i].content])

\* C14: the retained lines before the first header line are in no block:
\* parsing yields blocks (never an error value), their contents together are
\* the non-header lines after the leading ones, and a text without a header
\* line parses to the empty list.
C14_LeadingLinesDropped ==
    pc = "parsed" =>
        LET toks == Tokenize(content)
            lead == LeadingLines(toks)
            rest == SubSeq(toks, Len(lead) + 1, Len(toks))
        IN  /\ \A i \in 1..Len(sections) : sections[i].type \in {"name", "section"}
            /\ BlockContents(sections) = SelectSeq(rest, LAMBDA l : ~IsHeaderLine(l))
            /\ HeaderPositions(toks) = {} => sections = <<>>

\* a text with a content line before its first header line, and a block
C14_Witness ==
    /\ pc = "parsed"
    /\ LeadingLines(Tokenize(content)) # <<>>
    /\ Len(sections) = 1
    /\ sections[1].content # <<>>

(***************************************************************************)
(* _get_dynamic_sizing and the sizes of create_styles                      *)
(*                                                                         *)
(* A scale is held in hundredths (0.85 is 85) and a font size in           *)
(* thousandths of a point (9.5 * 0.85 is 95 * 85 = 8075); spacing is the   *)
(* integer the code computes.                                              *)
(***************************************************************************)

\* mutant: the band up to 3500 repeats the scale of the band before it
OnePageScaleRepeatedBand(length) ==
    IF length <= 2000 THEN 100
    ELSE IF length <= 2500 THEN 95
    ELSE IF length <= 3000 THEN 90
    ELSE IF length <= 3500 THEN 90
    ELSE IF length <= 4000 THEN 75
    ELSE IF length <= 4500 THEN 65
    ELSE IF length <= 5000 THEN 60
    ELSE 55

\* mutant: two bands carry each other's scale
OnePageScaleSwappedBands(length) ==
    IF length <= 2000 THEN 100
    ELSE IF length <= 2500 THEN 95
    ELSE IF length <= 3000 THEN 90
    ELSE IF length <= 3500 THEN 75
    ELSE IF length <= 4000 THEN 85
    ELSE IF length <= 4500 THEN 65
    ELSE IF length <= 5000 THEN 60
    ELSE 55

\* the if / elif chain that sets `scale`
OnePageScale(length) ==
    IF length <= 2000 THEN 100
    ELSE IF length <= 2500 THEN 95
    ELSE IF length <= 3000 THEN 90
    ELSE IF length <= 3500 THEN 85
    ELSE IF length <= 4000 THEN 75
    ELSE IF length <= 4500 THEN 65
    ELSE IF length <= 5000 THEN 60
    ELSE 55

\* mutant: the one-page scaling is applied in both page modes
GetDynamicSizingAnyMode(onePage, length) ==
    [base_size |-> 95 * OnePageScale(length),
     name_size |-> 160 * OnePageScale(length),
     section_size |-> 110 * OnePageScale(length),
     small_size |-> 80 * OnePageScale(length)]

GetDynamicSizing(onePage, length) ==
    IF ~onePage
    THEN [base_size |-> 11000, name_size |-> 20000,
          section_size |-> 14000, small_size |-> 9000]
    ELSE [base_size |-> 95 * OnePageScale(length),
          name_size |-> 160 * OnePageScale(length),
          section_size |-> 110 * OnePageScale(length),
          small_size |-> 80 * OnePageScale(length)]

Max2(a, b) == IF a >= b THEN a ELSE b

\* mutant: multi-page styles take the sizes of _get_dynamic_sizing
CreateStylesSizesNoTiers(onePage, length) ==
    LET s == GetDynamicSizing(onePage, length)
    IN  [font_size |-> s.base_size,
         title_size |-> s.section_size,
         name_size |-> s.name_size,
         spacing |-> IF onePage THEN Max2(1, (s.base_size * 2) \div 10000) ELSE 6]

\* mutant: the one-page spacing is a quarter of the body size
CreateStylesSizesQuarterSpacing(onePage, length) ==
    IF onePage
    THEN LET s == GetDynamicSizing(onePage, length)
         IN  [font_size |-> s.base_size,
              title_size |-> s.section_size,
              name_size |-> s.name_size,
              spacing |-> Max2(1, (s.base_size * 25) \div 100000)]
    ELSE IF length > 5000
    THEN [font_size |-> 9000, title_size |-> 12000, name_size |-> 16000, spacing |-> 2]
    ELSE IF length > 3000
    THEN [font_size |-> 9000, title_size |-> 14000, name_size |-> 18000, spacing |-> 3]
    ELSE [font_size |-> 11000, title_size |-> 18000, name_size |-> 22000, spacing |-> 6]

\* font_size, title_size, name_size, spacing as create_styles sets them
CreateStylesSizes(onePage, length) ==
    IF onePage
    THEN LET s == GetDynamicSizing(onePage, length)
         IN  [font_size |-> s.base_size,
              title_size |-> s.section_size,
              name_size |-> s.name_size,
              spacing |-> Max2(1, (s.base_size * 2) \div 10000)]
    ELSE IF length > 5000
    THEN [font_size |-> 9000, title_size |-> 12000, name_size |-> 16000, spacing |-> 2]
    ELSE IF length > 3000
    THEN [font_size |-> 9000, title_size |-> 14000, name_size |-> 18000, spacing |-> 3]
    ELSE [font_size |-> 11000, title_size |-> 18000, name_size |-> 22000, spacing |-> 6]

\* the largest estimated content length of a run
MaxDensity == 6000

InitSize ==
    /\ pc = "size"
    /\ DocIdle
    /\ SegIdle
    /\ one_page \in BOOLEAN
    /\ content_length \in 0..MaxDensity
    /\ sizing = NoSizing
    /\ styles = NoStyles
    /\ CatIdle /\ HdrIdle /\ DensIdle /\ InlIdle /\ LateIdle

\* a call of _get_dynamic_sizing(self.content_length)
GetSizing ==
    /\ pc = "size"
    /\ sizing' = GetDynamicSizing(one_page, content_length)
    /\ pc' = "sized"
    /\ UNCHANGED <<docVars, segVars, catVars, hdrVars, one_page, content_length,
                   styles, densVars, inlVars, lateVars>>

\* self.create_styles(), as generate_pdf calls it
CreateStyles ==
    /\ pc = "size"
    /\ styles' = CreateStylesSizes(one_page, content_length)
    /\ sizing' = IF one_page THEN GetDynamicSizing(one_page, content_length)
                 ELSE sizing
    /\ pc' = "styled"
    /\ UNCHANGED <<docVars, segVars, catVars, hdrVars, one_page, content_length,
                   densVars, inlVars, lateVars>>

NextSize == GetSizing \/ CreateStyles

SpecSize == InitSize /\ [][NextSize]_vars

\* densities around every band edge of the documented table, the ends of the
\* range, and the neighbours of the density of this run
DensityProbes ==
    {d \in {0, 1000, 1500, MaxDensity, content_length + 1}
           \cup {e + k : e \in {2000, 2500, 3000, 3500, 4000, 4500, 5000},
                         k \in {0 - 1, 0, 1}}
           \cup {3200} :
        d >= 0}

ScaledSizes(scale) ==
    [base_size |-> 95 * scale, name_size |-> 160 * scale,
     section_size |-> 110 * scale, small_size |-> 80 * scale]

SizesAtMost(s, t) ==
    /\ s.base_size <= t.base_size
    /\ s.name_size <= t.name_size
    /\ s.section_size <= t.section_size
    /\ s.small_size <= t.small_size

\* C15: in one-page mode the four sizes are 9.5, 16, 11 and 8 times one scale,
\* and against the next density and every probe density the scale and each
\* size do not grow as the density grows.
C15_ScaleNonIncreasing ==
    (pc = "sized" /\ one_page) =>
        /\ \E scale \in 1..100 :
              /\ sizing = ScaledSizes(scale)
              /\ \A d \in DensityProbes :
                    /\ d > content_length => OnePageScale(d) <= scale
                    /\ d < content_length => OnePageScale(d) >= scale
        /\ \A d \in DensityProbes :
              /\ d > content_length =>
                    SizesAtMost(GetDynamicSizing(TRUE, d), sizing)
              /\ d < content_length =>
                    SizesAtMost(sizing, GetDynamicSizing(TRUE, d))

\* a density just past a band edge, sized smaller than the edge itself
C15_Witness ==
    /\ pc = "sized"
    /\ one_page
    /\ content_length = 3501
    /\ sizing.base_size < GetDynamicSizing(TRUE, 3500).base_size

\* C16: in one-page mode the scales form at least 6 bands from 1.0 down to
\* 0.55, density 1500 has scale 1.0, 3200 has 0.85 and 6000 has 0.55, and a
\* density of a later band has strictly smaller base and name sizes.
C16_BandTable ==
    (pc = "sized" /\ one_page) =>
        LET scales == {OnePageScale(d) : d \in DensityProbes}
        IN  /\ Cardinality(scales) >= 6
            /\ \A s \in scales : 55 <= s /\ s <= 100
            /\ 100 \in scales /\ 55 \in scales
            /\ content_length = 1500 => sizing = ScaledSizes(100)
            /\ content_length = 3200 => sizing = ScaledSizes(85)
            /\ content_length = 6000 => sizing = ScaledSizes(55)
            /\ \A d \in DensityProbes :
                  (d < content_length /\ OnePageScale(d) # OnePageScale(content_length))
                  => /\ sizing.base_size < GetDynamicSizing(TRUE, d).base_size
                     /\ sizing.name_size < GetDynamicSizing(TRUE, d).name_size
            /\ content_length = 4000 =>
                  /\ sizing.base_size < GetDynamicSizing(TRUE, 1000).base_size
                  /\ sizing.name_size < GetDynamicSizing(TRUE, 1000).name_size

\* the density 3200 of the scenario, sized with scale 0.85
C16_Witness ==
    /\ pc = "sized"
    /\ one_page
    /\ content_length = 3200
    /\ sizing = ScaledSizes(85)

\* the tier the thresholds 3000 and 5000 select
TierOf(d) == IF d > 5000 THEN 3 ELSE IF d > 3000 THEN 2 ELSE 1

\* C18: in multi-page mode the sizes of create_styles are one of three tiers,
\* equal for densities on the same side of the thresholds and different for
\* densities on opposite sides.
C18_ThreeTiers ==
    (pc = "styled" /\ ~one_page) =>
        /\ Cardinality({CreateStylesSizes(FALSE, d) : d \in DensityProbes}) = 3
        /\ \A d \in DensityProbes :
              (TierOf(d) = TierOf(content_length))
                  <=> (CreateStylesSizes(FALSE, d) = styles)

\* a density just past the first threshold, styled unlike the threshold itself
C18_Witness ==
    /\ pc = "styled"
    /\ ~one_page
    /\ content_length = 3001
    /\ styles # CreateStylesSizes(FALSE, 3000)
    /\ styles # CreateStylesSizes(FALSE, 5001)

\* C19: in multi-page mode _get_dynamic_sizing returns 11, 20, 14 and 9
\* whatever the content length.
C19_MultiPageConstant ==
    (pc = "sized" /\ ~one_page) =>
        sizing = [base_size |-> 11000, name_size |-> 20000,
                  section_size |-> 14000, small_size |-> 9000]

\* the content length 5000 of the test, and the sizes it asserts
C19_Witness ==
    /\ pc = "sized"
    /\ ~one_page
    /\ content_length = 5000
    /\ sizing.base_size = 11000
    /\ sizing.small_size = 9000

(***************************************************************************)
(* _estimate_content_length                                                *)
(***************************************************************************)

\* the character class [#*\-\[\]()]
MarkdownChars == {"#", "*", "-", "[", "]", "(", ")"}

\* mutant: a '*' and everything up to the next '*' is removed as one span
RECURSIVE RemoveStarSpans(_)
RemoveStarSpans(s) ==
    IF s = <<>> THEN <<>>
    ELSE IF Head(s) = "*" /\ \E j \in 2..Len(s) : s[j] = "*"
    THEN RemoveStarSpans(
             SubSeq(s, (CHOOSE j \in 2..Len(s) :
                            s[j] = "*" /\ \A m \in 2..(j - 1) : s[m] # "*") + 1,
                    Len(s)))
    ELSE IF Head(s) \in MarkdownChars THEN RemoveStarSpans(Tail(s))
    ELSE <<Head(s)>> \o RemoveStarSpans(Tail(s))

\* re.sub(r'[#*\-\[\]()]', '', content)
RemoveMarkdownChars(s) == SelectSeq(s, LAMBDA c : c \notin MarkdownChars)

\* re.sub(r'\s+', ' ', text): each run of whitespace becomes one space
RECURSIVE CollapseWhitespace(_)
CollapseWhitespace(s) ==
    IF s = <<>> THEN <<>>
    ELSE IF Head(s) \in Whitespace
    THEN <<" ">> \o CollapseWhitespace(LStrip(s))
    ELSE <<Head(s)>> \o CollapseWhitespace(Tail(s))

EstimateContentLength(text) ==
    Len(Strip(CollapseWhitespace(RemoveMarkdownChars(text))))

\* number of characters of a text handed to the estimate
MaxTextLen == 3

TextChars == {"x", " ", "\n", "*"}

EstimateTexts == SeqsUpTo(TextChars, MaxTextLen)

InitDens ==
    /\ pc = "estimate"
    /\ DocIdle
    /\ SegIdle
    /\ textA \in EstimateTexts
    /\ textB \in EstimateTexts
    /\ density = NoDensity
    /\ CatIdle /\ HdrIdle /\ SizeIdle /\ InlIdle /\ LateIdle

\* _estimate_content_length on textA, on textB and on textA + textB
Estimate ==
    /\ pc = "estimate"
    /\ density' = [a |-> EstimateContentLength(textA),
                   b |-> EstimateContentLength(textB),
                   ab |-> EstimateContentLength(textA \o textB)]
    /\ pc' = "estimated"
    /\ UNCHANGED <<docVars, segVars, catVars, hdrVars, sizeVars, textA, textB, inlVars, lateVars>>

NextDens == Estimate

SpecDens == InitDens /\ [][NextDens]_vars

\* s with the seven Markdown characters gone, every whitespace run turned
\* into one space, and trimmed: the text whose length C17 calls the density
RECURSIVE Squeezed(_, _)
Squeezed(s, pending) ==
    IF s = <<>> THEN <<>>
    ELSE IF Head(s) \in {"#", "*", "-", "[", "]", "(", ")"} THEN Squeezed(Tail(s), pending)
    ELSE IF Head(s) \in Whitespace THEN Squeezed(Tail(s), TRUE)
    ELSE (IF pending THEN <<" ">> ELSE <<>>) \o <<Head(s)>> \o Squeezed(Tail(s), FALSE)

\* a pending space is written only between two kept characters
SqueezedText(s) ==
    LET t == Squeezed(s, FALSE)
    IN  IF t # <<>> /\ Head(t) = " " THEN Tail(t) ELSE t

\* C17: the estimate is the length of the stripped, collapsed, trimmed text,
\* and the estimate of a concatenation is at least the estimate of each part.
C17_DensityMonotonic ==
    pc = "estimated" =>
        /\ density.a = Len(SqueezedText(textA))
        /\ density.ab = Len(SqueezedText(textA \o textB))
        /\ density.ab >= density.a
        /\ density.ab >= density.b

\* two parts whose joint has a whitespace run and a removed character at the
\* seam, and a strictly larger estimate than either part
C17_Witness ==
    /\ pc = "estimated"
    /\ textA = <<"x", " ", "*">>
    /\ textB = <<"\n", "x">>
    /\ density.a = 1
    /\ density.b = 1
    /\ density.ab = 3

(***************************************************************************)
(* _clean_text                                                             *)
(*                                                                         *)
(* A text is a sequence of elements; an element is one character of the    *)
(* input or one piece of ReportLab markup written by a substitution.  No   *)
(* piece of markup holds any of the characters * _ [ ] ( ) or the grave    *)
(* accent the patterns look for, so a pattern treats it as one character   *)
(* outside its class.                                                      *)
(***************************************************************************)

Underscore == <<"_">>

\* the grave accent that delimits code spans; a TLA+ string cannot hold the
\* character, so the element is spelled out
Grave == "GRAVE"
Backtick == <<Grave>>

\* the index of the first x in s at or after from, 0 if there is none
FirstOf(s, x, from) ==
    IF \E j \in from..Len(s) : s[j] = x
    THEN CHOOSE j \in from..Len(s) : s[j] = x /\ \A m \in from..(j - 1) : s[m] # x
    ELSE 0

\* A match of  open ([^x]+) close  at the head of s, where close begins with
\* x: the class runs up to the first x, so the match exists iff that run is
\* not empty and close stands at the first x.  The index of that x, 0 if
\* there is no match.
GroupEnd(s, open, x, close) ==
    IF ~StartsWith(s, open) THEN 0
    ELSE LET j == FirstOf(s, x, Len(open) + 1)
         IN  IF j > Len(open) + 1 /\ StartsWith(Drop(s, j - 1), close) THEN j ELSE 0

\* re.sub(open ([^x]+) close, pre \1 post, s): leftmost matches, not
\* overlapping, the scan resuming after each match
RECURSIVE SubWrap(_, _, _, _, _, _)
SubWrap(s, open, x, close, pre, post) ==
    IF s = <<>> THEN <<>>
    ELSE LET j == GroupEnd(s, open, x, close)
         IN  IF j = 0
             THEN <<Head(s)>> \o SubWrap(Tail(s), open, x, close, pre, post)
             ELSE pre \o SubSeq(s, Len(open) + 1, j - 1) \o post
                  \o SubWrap(Drop(s, j - 1 + Len(close)), open, x, close, pre, post)

\* link_color = "cyan" if self.theme.name == "dark" else "blue"
LinkColor(themeName) == IF themeName = "dark" THEN "cyan" ELSE "blue"

LinkOpen == "<link href=\""
LinkMid(themeName) ==
    IF LinkColor(themeName) = "cyan" THEN "\" color=\"cyan\"><u>" ELSE "\" color=\"blue\"><u>"
LinkClose == "</u></link>"

\* the replacement <link href="\2" color="{link_color}"><u>\1</u></link>
LinkMarkup(label, url, themeName) ==
    <<LinkOpen>> \o url \o <<LinkMid(themeName)>> \o label \o <<LinkClose>>

\* re.sub(r'\[([^\]]+)\]\(([^)]+)\)', <link markup>, s)
RECURSIVE SubLinks(_, _)
SubLinks(s, themeName) ==
    IF s = <<>> THEN <<>>
    ELSE LET j == GroupEnd(s, <<"[">>, "]", <<"]", "(">>)
             k == IF j = 0 THEN 0 ELSE FirstOf(s, ")", j + 2)
         IN  IF j # 0 /\ k > j + 2
             THEN LinkMarkup(SubSeq(s, 2, j - 1), SubSeq(s, j + 2, k - 1), themeName)
                  \o SubLinks(Drop(s, k), themeName)
             ELSE <<Head(s)>> \o SubLinks(Tail(s), themeName)

BoldOpen == <<"<b>">>
BoldClose == <<"</b>">>
ItalicOpen == <<"<i>">>
ItalicClose == <<"</i>">>
CodeOpen == <<"<font name=\"Courier\">">>
CodeClose == <<"</font>">>

\* mutant: plain bold and the two italics run before the combined patterns
CleanTextPlainFirst(text, themeName) ==
    LET t1 == SubLinks(text, themeName)
        t2 == SubWrap(t1, Bold, "*", Bold, BoldOpen, BoldClose)
        t3 == SubWrap(t2, Underscore, "_", Underscore, ItalicOpen, ItalicClose)
        t4 == SubWrap(t3, <<Star>>, "*", <<Star>>, ItalicOpen, ItalicClose)
        t5 == SubWrap(t4, Underscore \o Bold, "*", Bold \o Underscore,
                      BoldOpen \o ItalicOpen, ItalicClose \o BoldClose)
        t6 == SubWrap(t5, Bold \o Underscore, "_", Underscore \o Bold,
                      BoldOpen \o ItalicOpen, ItalicClose \o BoldClose)
    IN  SubWrap(t6, Backtick, Grave, Backtick, CodeOpen, CodeClose)

\* mutant: the translated fragment is returned inside a font element
CleanTextInFont(text, themeName) ==
    LET t1 == SubLinks(text, themeName)
        t2 == SubWrap(t1, Underscore \o Bold, "*", Bold \o Underscore,
                      BoldOpen \o ItalicOpen, ItalicClose \o BoldClose)
        t3 == SubWrap(t2, Bold \o Underscore, "_", Underscore \o Bold,
                      BoldOpen \o ItalicOpen, ItalicClose \o BoldClose)
        t4 == SubWrap(t3, Bold, "*", Bold, BoldOpen, BoldClose)
        t5 == SubWrap(t4, Underscore, "_", Underscore, ItalicOpen, ItalicClose)
        t6 == SubWrap(t5, <<Star>>, "*", <<Star>>, ItalicOpen, ItalicClose)
    IN  CodeOpen \o SubWrap(t6, Backtick, Grave, Backtick, CodeOpen, CodeClose) \o CodeClose

\* the seven substitutions of _clean_text, in the order of the code
CleanText(text, themeName) ==
    LET t1 == SubLinks(text, themeName)
        t2 == SubWrap(t1, Underscore \o Bold, "*", Bold \o Underscore,
                      BoldOpen \o ItalicOpen, ItalicClose \o BoldClose)
        t3 == SubWrap(t2, Bold \o Underscore, "_", Underscore \o Bold,
                      BoldOpen \o ItalicOpen, ItalicClose \o BoldClose)
        t4 == SubWrap(t3, Bold, "*", Bold, BoldOpen, BoldClose)
        t5 == SubWrap(t4, Underscore, "_", Underscore, ItalicOpen, ItalicClose)
        t6 == SubWrap(t5, <<Star>>, "*", <<Star>>, ItalicOpen, ItalicClose)
    IN  SubWrap(t6, Backtick, Grave, Backtick, CodeOpen, CodeClose)

\* number of characters of a link's label and of its url
MaxSpanLen == 2

SpanChars == {"x", "*", "_", Grave}

\* labels and urls: not empty, and free of ']' and ')' as the link pattern requires
Spans == SeqsUpTo(SpanChars, MaxSpanLen) \ {<<>>}

\* what stands before and after the link in the fragment
Surroundings == {<<>>, <<"x", " ">>, <<"*">>, <<"_">>, <<"*", "*">>}

LinkSource(label, url) == <<"[">> \o label \o <<"]", "(">> \o url \o <<")">>

InitInline ==
    /\ pc = "inline"
    /\ DocIdle
    /\ SegIdle
    /\ CatIdle /\ HdrIdle /\ SizeIdle /\ DensIdle /\ LateIdle
    /\ theme \in {"light", "dark"}
    /\ inLabel \in Spans
    /\ inUrl \in Spans
    /\ \E before \in Surroundings, after \in Surroundings :
           inText = before \o LinkSource(inLabel, inUrl) \o after
    /\ outText = <<>>

\* _clean_text(inText)
CleanFragment ==
    /\ pc = "inline"
    /\ outText' = CleanText(inText, theme)
    /\ pc' = "cleaned"
    /\ UNCHANGED <<docVars, segVars, catVars, hdrVars, sizeVars, densVars, lateVars,
                   theme, inLabel, inUrl, inText>>

NextInline == CleanFragment

SpecInline == InitInline /\ [][NextInline]_vars

\* C20: the output for a fragment holding the link [label](url) holds the
\* link markup with exactly url as its target and exactly label as its text,
\* whatever '*', '_' or backticks the label, the url and the surrounding text
\* hold: no later pass rewrites anything inside the substituted link span.
C20_LinkSpanUntouched ==
    pc = "cleaned" => Contains(outText, LinkMarkup(inLabel, inUrl, theme))

(***************************************************************************)
(* _clean_text on atomic forms and on its own output                       *)
(***************************************************************************)

\* the characters the patterns of _clean_text look for
Delimiters == {"*", "_", Grave, "[", "]", "(", ")"}

NoRawDelimiter(s) == \A i \in 1..Len(s) : s[i] \notin Delimiters

AtomKinds == {"link", "bold", "italic_star", "italic_underscore", "code",
              "underscore_bold", "bold_underscore"}

\* the Markdown source of one atomic form around t (a link: label t, target url)
AtomSource(kind, t, url) ==
    CASE kind = "link" -> <<"[">> \o t \o <<"]", "(">> \o url \o <<")">>
      [] kind = "bold" -> <<"*", "*">> \o t \o <<"*", "*">>
      [] kind = "italic_star" -> <<"*">> \o t \o <<"*">>
      [] kind = "italic_underscore" -> <<"_">> \o t \o <<"_">>
      [] kind = "code" -> <<Grave>> \o t \o <<Grave>>
      [] kind = "underscore_bold" -> <<"_", "*", "*">> \o t \o <<"*", "*", "_">>
      [] kind = "bold_underscore" -> <<"*", "*", "_">> \o t \o <<"_", "*", "*">>

\* number of characters of the inner text of an atomic form
MaxInnerLen == 2

\* number of characters of a fragment mixing characters and delimiters
MaxMixedLen == 4

PlainTexts == SeqsUpTo({"x", " "}, MaxInnerLen) \ {<<>>}

MixedTexts == SeqsUpTo({"x", "*", "_", Grave, "[", "]", "(", ")"}, MaxMixedLen)

InitMarkup ==
    /\ pc = "inline"
    /\ DocIdle
    /\ SegIdle
    /\ CatIdle /\ HdrIdle /\ SizeIdle /\ DensIdle /\ LateIdle
    /\ theme \in {"light", "dark"}
    /\ \/ /\ inLabel \in PlainTexts
          /\ inUrl \in PlainTexts
          /\ \E kind \in AtomKinds : inText = AtomSource(kind, inLabel, inUrl)
       \/ /\ inLabel = <<>>
          /\ inUrl = <<>>
          /\ inText \in MixedTexts
    /\ outText = <<>>

\* _clean_text applied to what _clean_text returned
CleanAgain ==
    /\ pc = "cleaned"
    /\ inText' = outText
    /\ outText' = CleanText(outText, theme)
    /\ pc' = "recleaned"
    /\ UNCHANGED <<docVars, segVars, catVars, hdrVars, sizeVars, densVars, lateVars,
                   theme, inLabel, inUrl>>

NextMarkup == CleanFragment \/ CleanAgain

SpecMarkup == InitMarkup /\ [][NextMarkup]_vars

\* the markup each atomic form is to become
AtomTarget(kind, t, url, themeName) ==
    CASE kind = "link" ->
             <<"<link href=\"">> \o url
             \o <<IF themeName = "dark" THEN "\" color=\"cyan\"><u>"
                                        ELSE "\" color=\"blue\"><u>">>
             \o t \o <<"</u></link>">>
      [] kind = "bold" -> <<"<b>">> \o t \o <<"</b>">>
      [] kind \in {"italic_star", "italic_underscore"} -> <<"<i>">> \o t \o <<"</i>">>
      [] kind = "code" -> <<"<font name=\"Courier\">">> \o t \o <<"</font>">>
      [] kind \in {"underscore_bold", "bold_underscore"} ->
             <<"<b>", "<i>">> \o t \o <<"</i>", "</b>">>

\* C21: an atomic form around delimiter-free text becomes exactly one wrapper
\* of its kind around the unchanged text, with no raw delimiter left; the
\* two combined bold+italic forms become <b><i>t</i></b>, wrapped once.
C21_AtomicForms ==
    (pc = "cleaned" /\ inLabel # <<>>) =>
        \A kind \in AtomKinds :
            inText = AtomSource(kind, inLabel, inUrl) =>
                /\ outText = AtomTarget(kind, inLabel, inUrl, theme)
                /\ NoRawDelimiter(outText)

\* the combined form **_x x_** translated to one bold and one italic wrapper
C21_Witness ==
    /\ pc = "cleaned"
    /\ inLabel = <<"x", " ">>
    /\ inText = <<"*", "*", "_", "x", " ", "_", "*", "*">>
    /\ outText = <<"<b>", "<i>", "x", " ", "</i>", "</b>">>

\* C22: translating a text that holds no raw delimiter returns it unchanged;
\* so translating twice equals translating once whenever the first
\* translation left no raw delimiter.
C22_IdempotentOnMarkup ==
    (pc = "recleaned" /\ NoRawDelimiter(inText)) => outText = inText

\* a mixed fragment whose translation is markup without raw delimiters and
\* has been translated again
C22_Witness ==
    /\ pc = "recleaned"
    /\ inText = <<"<i>", "x", "</i>", "x">>
    /\ outText = inText

(***************************************************************************)
(* generate_pdf                                                            *)
(*                                                                         *)
(* A Markdown file is held by what _estimate_content_length returns for    *)
(* its text: that number is all generate_pdf keeps of the text in the      *)
(* builder.                                                                *)
(***************************************************************************)

\* the builders that exist
BuilderIds == {1, 2}

\* the Markdown files that exist, with the estimate of their text
InputFiles ==
    [p \in {"a.md", "b.md", "c.md"} |->
        CASE p = "a.md" -> 1500
          [] p = "b.md" -> 3200
          [] p = "c.md" -> 6000]

\* the paths generate_pdf is called with
InputPaths == {"a.md", "b.md", "c.md", "missing.md"}

\* markdown_path.stem
Stem(path) ==
    CASE path = "a.md" -> "a"
      [] path = "b.md" -> "b"
      [] path = "c.md" -> "c"
      [] path = "missing.md" -> "missing"

\* output_dir / f"{base_name}{suffix}.pdf"
OutputName(path, onePage) ==
    <<Stem(path), IF onePage THEN "_one_page" ELSE "_full", ".pdf">>

OutputNames == {OutputName(p, o) : p \in InputPaths, o \in BOOLEAN}

\* __init__: content_length = 0, styles = None
NewBuilder(onePage) ==
    [one_page |-> onePage, content_length |-> 0, styles |-> NoStyles]

\* mutant: create_styles runs before content_length is assigned
RunConversionStaleStyles(builder, length) ==
    LET styled == [builder EXCEPT
                       !.styles = CreateStylesSizes(builder.one_page, builder.content_length)]
    IN  [styled EXCEPT !.content_length = length]

\* self.content_length = self._estimate_content_length(markdown_content)
\* self.create_styles()
RunConversion(builder, length) ==
    LET measured == [builder EXCEPT !.content_length = length]
    IN  [measured EXCEPT
             !.styles = CreateStylesSizes(measured.one_page, measured.content_length)]

\* mutant: the builder is reset before the path is tested
GeneratePdfResetFirst(bs, out, b, path) ==
    IF path \notin DOMAIN InputFiles
    THEN [builders |-> [bs EXCEPT ![b] = NewBuilder(bs[b].one_page)],
          outFiles |-> out,
          result |-> "FileNotFoundError",
          steps |-> <<"exists">>]
    ELSE LET converted == RunConversion(bs[b], InputFiles[path])
         IN  [builders |-> [bs EXCEPT ![b] = converted],
              outFiles |-> [out EXCEPT ![OutputName(path, converted.one_page)] = @ + 1],
              result |-> "ok",
              steps |-> <<"exists", "read", "estimate", "create_styles", "parse", "build">>]

\* generate_pdf(markdown_file) of builder b: the builders and output files
\* it leaves, how it ended and the steps it went through
GeneratePdfOutcome(bs, out, b, path) ==
    IF path \notin DOMAIN InputFiles
    THEN [builders |-> bs,
          outFiles |-> out,
          result |-> "FileNotFoundError",
          steps |-> <<"exists">>]
    ELSE LET converted == RunConversion(bs[b], InputFiles[path])
         IN  [builders |-> [bs EXCEPT ![b] = converted],
              outFiles |-> [out EXCEPT ![OutputName(path, converted.one_page)] = @ + 1],
              result |-> "ok",
              steps |-> <<"exists", "read", "estimate", "create_styles", "parse", "build">>]

\* generate_pdf calls made on the builders
MaxCalls == 3

NoCall ==
    [builder |-> 0, path |-> "none", result |-> "none", steps |-> <<>>,
     builders_before |-> <<>>, outFiles_before |-> <<>>]

InitGen ==
    /\ pc = "gen"
    /\ DocIdle
    /\ SegIdle
    /\ CatIdle /\ HdrIdle /\ SizeIdle /\ DensIdle /\ InlIdle
    /\ \E options \in [BuilderIds -> BOOLEAN] :
           builders = [b \in BuilderIds |-> NewBuilder(options[b])]
    /\ lastInput = [b \in BuilderIds |-> "none"]
    /\ outFiles = [n \in OutputNames |-> 0]
    /\ nCalls = 0
    /\ call = NoCall
    /\ ColorIdle /\ VariantIdle /\ EduIdle /\ LayIdle

GeneratePdf ==
    /\ pc = "gen"
    /\ nCalls < MaxCalls
    /\ \E b \in BuilderIds, path \in InputPaths :
           LET o == GeneratePdfOutcome(builders, outFiles, b, path)
           IN  /\ builders' = o.builders
               /\ outFiles' = o.outFiles
               /\ lastInput' = IF o.result = "ok"
                               THEN [lastInput EXCEPT ![b] = path]
                               ELSE lastInput
               /\ call' = [builder |-> b, path |-> path, result |-> o.result,
                           steps |-> o.steps,
                           builders_before |-> builders,
                           outFiles_before |-> outFiles]
    /\ nCalls' = nCalls + 1
    /\ UNCHANGED <<pc, docVars, segVars, catVars, hdrVars, sizeVars, densVars, inlVars,
                   colorVars, variantVars, eduVars, layVars>>

NextGen == GeneratePdf

SpecGen == InitGen /\ [][NextGen]_vars

\* C23: a call with a path that does not exist ends in FileNotFoundError
\* after the existence test alone (no read, estimate, style creation or
\* parse), leaves every output file as it was and leaves content_length and
\* styles of every builder unchanged.
C23_MissingInputFailsFirst ==
    (nCalls > 0 /\ call.path \notin DOMAIN InputFiles) =>
        /\ call.result = "FileNotFoundError"
        /\ call.steps = <<"exists">>
        /\ outFiles = call.outFiles_before
        /\ builders = call.builders_before

\* a failed call on a builder that had converted a file before: its
\* content_length and styles and the written output are still there
C23_Witness ==
    /\ nCalls > 1
    /\ call.result = "FileNotFoundError"
    /\ builders[call.builder].content_length = 3200
    /\ builders[call.builder].styles # NoStyles
    /\ \E n \in OutputNames : outFiles[n] = 1

\* C25: what a completed call leaves as content_length and styles is fixed by
\* the file of that call and the builder's one_page option alone; two
\* builders with the same option whose last conversions read the same file
\* hold the same content_length and styles, whatever they converted before.
C25_NoStateAcrossCalls ==
    /\ (nCalls > 0 /\ call.result = "ok") =>
           LET b == builders[call.builder]
           IN  /\ b.content_length = InputFiles[call.path]
               /\ b.styles = CreateStylesSizes(b.one_page, InputFiles[call.path])
    /\ \A b1 \in BuilderIds, b2 \in BuilderIds :
           (/\ builders[b1].one_page = builders[b2].one_page
            /\ lastInput[b1] # "none"
            /\ lastInput[b1] = lastInput[b2]) =>
               /\ builders[b1].content_length = builders[b2].content_length
               /\ builders[b1].styles = builders[b2].styles

\* two multi-page builders both ending on b.md, one of them after a.md
C25_Witness ==
    /\ nCalls = 3
    /\ ~builders[1].one_page /\ ~builders[2].one_page
    /\ lastInput[1] = "b.md" /\ lastInput[2] = "b.md"
    /\ call.result = "ok"
    /\ call.builders_before[call.builder].content_length = 1500

(***************************************************************************)
(* __init__: the header_color option                                       *)
(***************************************************************************)

White == <<"w", "h", "i", "t", "e">>
HashFFFFFF == <<"#", "f", "f", "f", "f", "f", "f">>

HexDigits == {"0", "1", "2", "3", "4", "5", "6", "7", "8", "9",
              "a", "b", "c", "d", "e", "f", "A", "B", "C", "D", "E", "F"}

\* s[i:i+2]: what is left of the slice when s is too short
Slice(s, i) == [k \in 1..(IF Len(s) - i >= 2 THEN 2
                          ELSE IF Len(s) - i = 1 THEN 1 ELSE 0) |-> s[i + k]]

\* int(s, 16) for a slice of at most two characters: surrounding whitespace
\* and one sign are allowed, then at least one hexadecimal digit and nothing
\* else has to remain ("0x" alone and underscores at an end are errors)
IsHexInt(s) ==
    LET t == Strip(s)
        digits == IF t # <<>> /\ Head(t) \in {"+", "-"} THEN Tail(t) ELSE t
    IN  /\ digits # <<>>
        /\ \A k \in 1..Len(digits) : digits[k] \in HexDigits

\* self.is_white_background
IsWhiteBackground(color) == Lower(color) = White \/ color = HashFFFFFF

\* how __init__ ends for a header_color: the white branch, the Color of the
\* three slices, or the ValueError of int()
HeaderColorOutcome(color) ==
    IF IsWhiteBackground(color) THEN "white"
    ELSE LET digits == LStripChar(color, "#")
         IN  IF \A i \in {0, 2, 4} : IsHexInt(Slice(digits, i))
             THEN "color"
             ELSE "ValueError"

\* number of characters of a header_color
MaxColorLen == 8

HeaderColors ==
    SeqsUpTo({"#", "f", "g"}, MaxColorLen)
        \cup {White, <<"W", "H", "I", "T", "E">>,
              <<"#", " ", "f", " ", "f", " ", "f">>,
              <<"#", "-", "f", "-", "f", "-", "f">>}

InitColor ==
    /\ pc = "color"
    /\ DocIdle
    /\ SegIdle
    /\ CatIdle /\ HdrIdle /\ SizeIdle /\ DensIdle /\ InlIdle
    /\ GenIdle
    /\ header_color \in HeaderColors
    /\ colorOutcome = "none"
    /\ VariantIdle /\ EduIdle /\ LayIdle

\* ResumeBuilder(header_color=...)
Construct ==
    /\ pc = "color"
    /\ colorOutcome' = HeaderColorOutcome(header_color)
    /\ pc' = "constructed"
    /\ UNCHANGED <<docVars, segVars, catVars, hdrVars, sizeVars, densVars, inlVars,
                   genVars, header_color, variantVars, eduVars, layVars>>

NextColor == Construct

SpecColor == InitColor /\ [][NextColor]_vars

\* an optional '#' followed by exactly six hexadecimal digits
IsHexTriplet(color) ==
    LET digits == IF color # <<>> /\ Head(color) = "#" THEN Tail(color) ELSE color
    IN  /\ Len(digits) = 6
        /\ \A k \in 1..6 : digits[k] \in HexDigits

\* C24: a header_color that is neither the white sentinel nor a hex triplet
\* makes the construction fail.
C24_MalformedColorRejected ==
    (pc = "constructed" /\ Lower(header_color) # White /\ ~IsHexTriplet(header_color))
        => colorOutcome = "ValueError"

(***************************************************************************)
(* _parse_markdown_content of resume_builder_reportlab.py and of           *)
(* main_unified.py                                                         *)
(***************************************************************************)

\* the separator of resume_builder_reportlab.py: '\n', one character
NewlineSep == <<NL>>

\* the separator of main_unified.py: '\\n', a backslash and the letter n
BackslashNSep == <<"\\", "n">>

\* s.split(sep) for a separator of one or more characters
RECURSIVE SplitOnFrom(_, _, _, _)
SplitOnFrom(s, sep, i, piece) ==
    IF i > Len(s) THEN <<piece>>
    ELSE IF /\ i + Len(sep) - 1 <= Len(s)
            /\ \A k \in 1..Len(sep) : s[i + k - 1] = sep[k]
    THEN <<piece>> \o SplitOnFrom(s, sep, i + Len(sep), <<>>)
    ELSE SplitOnFrom(s, sep, i + 1, Append(piece, s[i]))

SplitOn(s, sep) == SplitOnFrom(s, sep, 1, <<>>)

\* the lines the loop of a variant gets past `if not line: continue`; the
\* variants have no test for separators
TokenizeVariant(text, sep) ==
    LET raw == SplitOn(Strip(text), sep)
        stripped == [i \in 1..Len(raw) |-> Strip(raw[i])]
    IN  SelectSeq(stripped, LAMBDA l : l # <<>>)

\* the loop body and the closing of the last block are those of the package
ParseVariant(text, sep) ==
    CloseBlock(ParseLoop([sections |-> <<>>,
                          current_section |-> NoSection,
                          current_content |-> <<>>],
                         TokenizeVariant(text, sep), 1))

ParseReportlab(text) == ParseVariant(text, NewlineSep)

ParseUnified(text) == ParseVariant(text, BackslashNSep)

\* lines of a text handed to the three parsers
MaxVariantLines == 3

VariantLines ==
    { <<"#"," ","A">>,
      <<"#","#"," ","S">>,
      <<"c">>,
      <<" ","d"," ">>,
      <<>>,
      <<"-","-","-">>,
      <<"c","\\","n","d">> }

VariantTexts == {JoinLines(ls) : ls \in SeqsUpTo(VariantLines, MaxVariantLines)}

InitVariants ==
    /\ pc = "variants"
    /\ content \in VariantTexts
    /\ sections = <<>>
    /\ SegIdle
    /\ CatIdle /\ HdrIdle /\ SizeIdle /\ DensIdle /\ InlIdle
    /\ GenIdle /\ ColorIdle
    /\ VariantIdle
    /\ EduIdle /\ LayIdle

\* the three parsers run on the same text
ParseVariants ==
    /\ pc = "variants"
    /\ sections' = ParseMarkdownContent(content)
    /\ sectionsReportlab' = ParseReportlab(content)
    /\ sectionsUnified' = ParseUnified(content)
    /\ pc' = "variants_parsed"
    /\ UNCHANGED <<content, segVars, catVars, hdrVars, sizeVars, densVars, inlVars,
                   genVars, colorVars, eduVars, layVars>>

NextVariants == ParseVariants

SpecVariants == InitVariants /\ [][NextVariants]_vars

\* no line of the text, stripped or not, starts with '---'
NoRuleLine(text) ==
    LET raw == SplitLines(text)
    IN  \A i \in 1..Len(raw) :
            ~StartsWith(raw[i], HRule) /\ ~StartsWith(Strip(raw[i]), HRule)

\* C26: on a text without a line starting with '---' the three parsers
\* return the same block list.
C26_VariantsAgree ==
    (pc = "variants_parsed" /\ NoRuleLine(content)) =>
        /\ sectionsReportlab = sections
        /\ sectionsUnified = sections

(***************************************************************************)
(* _format_education_section                                               *)
(***************************************************************************)

\* `if current_entry: education_entries.append(current_entry)`
EduClose(st) ==
    IF st.current_entry # <<>> THEN Append(st.education_entries, st.current_entry)
    ELSE st.education_entries

\* one iteration of `for line in content`: the tests are made on the line
\* _clean_text returned
EduLine(st, line, themeName) ==
    LET clean_line == CleanText(line, themeName)
    IN  IF StartsWith(clean_line, Bold) /\ EndsWith(clean_line, Bold)
        THEN [education_entries |-> EduClose(st),
              current_entry |-> <<[kind |-> "institution_degree", text |-> clean_line]>>]
        ELSE IF /\ clean_line # <<>>
                /\ ~StartsWith(clean_line, Hash)
                /\ ~StartsWith(clean_line, Bold)
        THEN [st EXCEPT !.current_entry =
                  Append(@, [kind |-> "date_location", text |-> clean_line])]
        ELSE st

RECURSIVE EduLoop(_, _, _, _)
EduLoop(st, lines, i, themeName) ==
    IF i > Len(lines) THEN st
    ELSE EduLoop(EduLine(st, lines[i], themeName), lines, i + 1, themeName)

\* education_entries after the loop and the closing of the last entry
EducationEntries(lines, themeName) ==
    EduClose(EduLoop([education_entries |-> <<>>, current_entry |-> <<>>],
                     lines, 1, themeName))

\* `if education_entries and len(education_entries) >= 2`: the two-column
\* table, else the entries one under the other
EducationLayout(es) == IF es # <<>> /\ Len(es) >= 2 THEN "table" ELSE "list"

\* content lines of an education section
MaxEduLines == 3

EduLines ==
    { <<"*","*","X","*","*">>,
      <<"*","*","Y","*","*">>,
      <<"d">>,
      <<"#","x">>,
      <<"*","*","*","*">>,
      <<"*","*","a","*","b","*","*">> }

InitEdu ==
    /\ pc = "edu"
    /\ DocIdle
    /\ SegIdle
    /\ CatIdle /\ HdrIdle /\ SizeIdle /\ DensIdle /\ InlIdle
    /\ GenIdle /\ ColorIdle /\ VariantIdle
    /\ eduContent \in SeqsUpTo(EduLines, MaxEduLines)
    /\ education_entries = <<>>
    /\ eduLayout = "none"
    /\ LayIdle

\* _format_education_section(eduContent)
FormatEducation ==
    /\ pc = "edu"
    /\ education_entries' = EducationEntries(eduContent, theme)
    /\ eduLayout' = EducationLayout(EducationEntries(eduContent, theme))
    /\ pc' = "edu_done"
    /\ UNCHANGED <<docVars, segVars, catVars, hdrVars, sizeVars, densVars, inlVars,
                   genVars, colorVars, variantVars, eduContent, layVars>>

NextEdu == FormatEducation

SpecEdu == InitEdu /\ [][NextEdu]_vars

\* a line **X** with X not empty and free of asterisks
IsInstitutionSource(line) ==
    /\ Len(line) >= 5
    /\ line[1] = "*" /\ line[2] = "*"
    /\ line[Len(line) - 1] = "*" /\ line[Len(line)] = "*"
    /\ \A k \in 3..(Len(line) - 2) : line[k] # "*"

InstitutionCount(lines) ==
    Cardinality({i \in 1..Len(lines) : IsInstitutionSource(lines[i])})

\* C27: every content line **X** starts a new education entry whose first
\* item is an institution line; so a section with exactly two such lines
\* yields two entries shown in the two-column table, and any other number of
\* entries is shown entry by entry.
C27_InstitutionLinesStartEntries ==
    pc = "edu_done" =>
        /\ eduContent # <<>> /\ IsInstitutionSource(eduContent[1]) =>
               /\ Len(education_entries) = InstitutionCount(eduContent)
               /\ \A e \in 1..Len(education_entries) :
                      education_entries[e][1].kind = "institution_degree"
        /\ InstitutionCount(eduContent) = 2 /\ IsInstitutionSource(eduContent[1]) =>
               eduLayout = "table"
        /\ Len(education_entries) # 2 => eduLayout = "list"

(***************************************************************************)
(* _parse_markdown_content on header marks with little or nothing after    *)
(* them                                                                    *)
(***************************************************************************)

\* lines of such a text
MaxEdgeLines == 3

EdgeLines ==
    { <<"#"," "," ","x"," ">>,
      <<"#"," ">>,
      <<"#","#"," ">>,
      <<"#","#"," "," ","y">>,
      <<"\t","#"," ","A","\t">>,
      <<" ","c"," ">>,
      <<" ","-","-","-">>,
      <<"#">>,
      <<"#"," ","#","#"," ","z">> }

EdgeTexts == {JoinLines(ls) : ls \in SeqsUpTo(EdgeLines, MaxEdgeLines)}

InitEdge ==
    /\ pc = "start"
    /\ content \in EdgeTexts
    /\ sections = <<>>
    /\ SegIdle
    /\ ExtIdle

SpecEdge == InitEdge /\ [][NextParse]_vars

\* not empty, and neither end is whitespace
IsTrimmedText(s) ==
    /\ s # <<>>
    /\ s[1] \notin Whitespace
    /\ s[Len(s)] \notin Whitespace

\* C28: every block has a non-empty title without leading or trailing
\* whitespace, and every content line is non-empty, without leading or
\* trailing whitespace, and starts with none of '# ', '## ' and '---'.
C28_BlocksWellFormed ==
    pc = "parsed" =>
        \A i \in 1..Len(sections) :
            /\ IsTrimmedText(sections[i].title)
            /\ \A k \in 1..Len(sections[i].content) :
                   LET l == sections[i].content[k]
                   IN  /\ IsTrimmedText(l)
                       /\ ~StartsWith(l, <<"#", " ">>)
                       /\ ~StartsWith(l, <<"#", "#", " ">>)
                       /\ ~StartsWith(l, <<"-", "-", "-">>)

\* a header with padding around its title, then a bare header mark that is
\* kept as the content line '#', then a padded content line
C28_Witness ==
    /\ pc = "parsed"
    /\ content = <<"#"," "," ","x"," ", "\n", "#"," ", "\n", " ","c"," ">>
    /\ sections = <<[type |-> "name", title |-> <<"x">>,
                     content |-> <<<<"#">>, <<"c">>>>]>>

(***************************************************************************)
(* The font sizes of the paragraph styles                                  *)
(***************************************************************************)

\* fontSize of every style create_styles builds from font_size, title_size
\* and name_size, and of the SkillCategory style of _format_skills_section
\* (Skills.fontSize - 1), in thousandths of a point
StyleFontSizes(st) ==
    [Name |-> st.name_size + 1000,
     Title |-> st.title_size + 1000,
     Contact |-> st.font_size + 2000,
     SectionHeader |-> st.font_size - 1000,
     JobTitle |-> st.font_size,
     Company |-> st.font_size,
     DateLocation |-> st.font_size - 1500,
     Body |-> st.font_size,
     Skills |-> st.font_size - 500,
     SkillCategory |-> (st.font_size - 500) - 1000]

\* C29: in both page modes and for every density every derived font size is
\* strictly positive, and in one-page mode the spacing is exactly 1.
C29_SizesPositive ==
    pc = "styled" =>
        /\ \A name \in DOMAIN StyleFontSizes(styles) : StyleFontSizes(styles)[name] > 0
        /\ styles.font_size > 0 /\ styles.title_size > 0 /\ styles.name_size > 0
        /\ styles.spacing > 0
        /\ one_page => styles.spacing = 1

\* the smallest one-page sizes: scale 0.55, body 5.225, dates 3.725
C29_Witness ==
    /\ pc = "styled"
    /\ one_page
    /\ content_length = MaxDensity
    /\ styles.font_size = 5225
    /\ StyleFontSizes(styles).DateLocation = 3725
    /\ StyleFontSizes(styles).SkillCategory = 3725
    /\ styles.spacing = 1

(***************************************************************************)
(* _build_pdf_content: the formatter chosen for a section                  *)
(***************************************************************************)

\* mutant: the education test is made before the skill test
LayoutEducationFirst(title) ==
    LET title_lower == Lower(title)
    IN  IF Contains(title_lower, KwEducation) THEN "education"
        ELSE IF Contains(title_lower, KwSkill) THEN "skills"
        ELSE "entries"

\* the if / elif / else on section['title'].lower(): _format_skills_section,
\* _format_education_section or the entry loop
Layout(title) ==
    LET title_lower == Lower(title)
    IN  IF Contains(title_lower, KwSkill) THEN "skills"
        ELSE IF Contains(title_lower, KwEducation) THEN "education"
        ELSE "entries"

\* the choice of the formatter for the section filed before
ChooseLayout ==
    /\ pc = "filed"
    /\ secLayout' = Layout(secTitle)
    /\ pc' = "laid"
    /\ UNCHANGED <<docVars, segVars, catVars, hdrVars, sizeVars, densVars, inlVars,
                   genVars, colorVars, variantVars, eduVars>>

NextLayout == FileSection \/ ChooseLayout

SpecLayout == InitCat /\ [][NextLayout]_vars

\* the keywords of C30 that the lowered title holds
LayoutKeywords(title) ==
    {kw \in {KwEducation, KwExperience, KwWork, KwSkill} : Contains(Lower(title), kw)}

\* C30: the layout is chosen from the title alone: skills exactly when it
\* holds 'skill', education exactly when it holds 'education' and not
\* 'skill', the entry loop otherwise.  With at most one of the keywords
\* education, experience, work, skill in the title, layout and category
\* agree; with 'skill' next to one of the other three the section is filed
\* as education or experience but laid out as skills.
C30_LayoutFromTitle ==
    pc = "laid" =>
        LET kws == LayoutKeywords(secTitle)
        IN  /\ secLayout = "skills" <=> KwSkill \in kws
            /\ secLayout = "education" <=> (KwEducation \in kws /\ KwSkill \notin kws)
            /\ secLayout = "entries" <=> (KwEducation \notin kws /\ KwSkill \notin kws)
            /\ Cardinality(kws) <= 1 =>
                   /\ secLayout = "skills" <=> secCategory = "skills"
                   /\ secLayout = "education" <=> secCategory = "education"
                   /\ secLayout = "entries" <=> secCategory \notin {"skills", "education"}
            /\ (KwSkill \in kws /\ Cardinality(kws) >= 2) =>
                   /\ secCategory \in {"education", "experience"}
                   /\ secLayout = "skills"

\* a title with 'skill' and 'education': filed as education, laid out as skills
C30_Witness ==
    /\ pc = "laid"
    /\ secTitle = <<"S","k","i","l","l","s"," ","E","d","u","c","a","t","i","o","n">>
    /\ secCategory = "education"
    /\ secLayout = "skills"

====
